---- MODULE Spec2Model ----
(***************************************************************************)
(* Model of csup_analyzer/event/Result.py: the per-driver Result record    *)
(* and the derivation pipeline of RaceResultsDataFrame (starting position, *)
(* end position, interpolation of time_until_starting_line_race, per-lap   *)
(* positions) together with the lap_position_table property.               *)
(*                                                                         *)
(* Times are small naturals.  None and np.nan are both the value NaN: a    *)
(* pandas float column holds either as NaN.                                *)
(***************************************************************************)
EXTENDS Integers, Sequences, FiniteSets, TLC

\* ---------------------------------------------------------------- bounds
\* longest lapTimes list of a raw race record (tables of two drivers)
MaxLaps == 3

\* ------------------------------------------------------------ value sets
\* None and np.nan
NaN == -1

\* racingTeamId of the rows: tables of two, three and four drivers
ShortGrid == 1..2
Grid == 1..3
LongGrid == 1..4

\* a lap takes 1 or 2 time units
LapTimeVals == {1, 2}

\* lengths of the lapTimes list of a raw race record: of any race, of a race of at most
\* two laps, of at most one lap, and of one lap that every driver completes
LapCounts == 0..MaxLaps
MidLapCounts == 0..2
ShortLapCounts == 0..1
OneLap == {1}

\* finishTime - sum(lapTimes) of a raw race record that has a finishTime
Gaps == 0..1
WideGaps == 0..2

\* values a spline may produce for a missing time_until_starting_line_race
SplineVals == 0..2

RECURSIVE SeqSum(_)
SeqSum(s) == IF s = <<>> THEN 0 ELSE s[1] + SeqSum(Tail(s))

SeqMin(s) == CHOOSE x \in {s[i] : i \in 1..Len(s)} : \A i \in 1..Len(s) : x <= s[i]

SeqRange(s) == {s[i] : i \in 1..Len(s)}

IndexOf(s, d) == CHOOSE i \in 1..Len(s) : s[i] = d

\* all orderings of the elements of S
Perms(S) == {s \in [1..Cardinality(S) -> S] : \A i, j \in 1..Cardinality(S) : s[i] = s[j] => i = j}

LapTimeLists(C) == UNION {[1..k -> LapTimeVals] : k \in C}

\* ---------------------------------------------------------------- Result
\* Python truthiness of "if self.total_time": None and 0 are both false
Truthy(x) == x # NaN /\ x # 0

\* NumLapsDriven without the guard for an empty list
NumLapsDrivenUnguarded(lap_times) == Len(lap_times)

NumLapsDriven(lap_times) == IF lap_times # <<>> THEN Len(lap_times) ELSE NaN

FastestLapTime(lap_times) == IF lap_times # <<>> THEN SeqMin(lap_times) ELSE NaN

TimeUntilStartingLine(total_time, lap_times) ==
    IF Truthy(total_time) THEN total_time - SeqSum(lap_times) ELSE NaN

\* the attributes Result.assign_individual_properties sets from a raw record
AssignIndividualProperties(res) ==
    [ total_time               |-> res.finishTime,
      lap_times                |-> res.lapTimes,
      num_laps_driven          |-> NumLapsDriven(res.lapTimes),
      fastest_lap_time         |-> FastestLapTime(res.lapTimes),
      time_until_starting_line |-> TimeUntilStartingLine(res.finishTime, res.lapTimes) ]

\* ----------------------------------------------------------------- state
VARIABLES
    raw,           \* per driver: the raw race record (or none) and the raw quali lap times
    has_quali,     \* the table has "_quali" columns
    results,       \* per driver: the race Result object (NoResult before construction / no race record)
    table,         \* per driver: the row of the RaceResultsDataFrame
    order,         \* row order of the table
    columns,       \* derived columns the table holds
    pc,            \* position of the program
    error,         \* exception that ended the run
    diagnostics,   \* text printed
    df_order,      \* row order of df inside __calc_lap_positions
    col,           \* loop variable of "for col in df_lap_times.columns"
    lap_rank,      \* per driver: the "Lap k" columns of df as the loop computes them
    interp_index,  \* per driver: the index the interpolation step gives its value
    pivot          \* "raised" once reading lap_position_table has raised

vars == <<raw, has_quali, results, table, order, columns, pc, error, diagnostics,
          df_order, col, lap_rank, interp_index, pivot>>

\* the index of the table: one row per driver
Drivers == DOMAIN raw

NoResult == [ total_time |-> NaN, lap_times |-> <<>>, num_laps_driven |-> NaN,
              fastest_lap_time |-> NaN, time_until_starting_line |-> NaN ]

\* raw race records: finishTime is absent or the lap times plus the time to the line
RaceRecords(C, G) ==
    UNION { { [inRace |-> TRUE, lapTimes |-> l, finishTime |-> f, qualiLapTimes |-> <<>>] :
                f \in {NaN} \cup {SeqSum(l) + g : g \in G} } : l \in LapTimeLists(C) }

\* a driver of the qualifying session without a race record
NoRaceRecord == [inRace |-> FALSE, lapTimes |-> <<>>, finishTime |-> NaN, qualiLapTimes |-> <<>>]

\* with qualifying data: a race of at most one lap, and the qualifying lap times
QualiRecords ==
    { [r EXCEPT !.qualiLapTimes = q] :
        r \in RaceRecords(ShortLapCounts, Gaps) \cup {NoRaceRecord},
        q \in LapTimeLists(ShortLapCounts) }

EmptyRow ==
    [ lap_times_race |-> <<>>, lap_times_isna |-> TRUE, total_time_race |-> NaN,
      num_laps_driven_race |-> NaN, fastest_lap_time_race |-> NaN,
      time_until_starting_line_race |-> NaN, fastest_lap_time_quali |-> NaN,
      starting_position_race |-> NaN, end_position_race |-> NaN,
      lap_positions_race |-> <<>>, lap_positions_isna |-> TRUE ]

InitRest ==
    /\ {d \in Drivers : raw[d].inRace} # {}
    /\ results = [d \in Drivers |-> NoResult]
    /\ table = [d \in Drivers |-> EmptyRow]
    /\ order = [i \in Drivers |-> i]
    /\ columns = {}
    /\ pc = "raw"
    /\ error = "none"
    /\ diagnostics = {}
    /\ df_order = <<>>
    /\ col = 0
    /\ lap_rank = [d \in Drivers |-> <<>>]
    /\ interp_index = [d \in Drivers |-> NaN]
    /\ pivot = "unread"

\* order=2 of Series.interpolate(method="spline", order=2)
SplineOrder == 2

\* tables of four drivers in a race of one lap in which the interpolation step has a
\* value to fill and points enough for its spline
LongTables ==
    {t \in [LongGrid -> RaceRecords(OneLap, Gaps)] :
        /\ \E d \in LongGrid : ~Truthy(t[d].finishTime)
        /\ Cardinality({d \in LongGrid : Truthy(t[d].finishTime)}) > SplineOrder}

\* a race header file only: two drivers in a race of up to MaxLaps laps, three drivers
\* in a race of up to two laps, or one of LongTables
Init ==
    /\ has_quali = FALSE
    /\ raw \in [ShortGrid -> RaceRecords(LapCounts, Gaps)]
                 \cup [Grid -> RaceRecords(MidLapCounts, Gaps)]
                 \cup LongTables
    /\ InitRest

\* the tables the starting grid is studied on: three drivers with a race header file
\* and a quali header file, or with a race header file of a race of one lap
InitGrid ==
    /\ \/ /\ has_quali = TRUE
          /\ raw \in [Grid -> QualiRecords]
       \/ /\ has_quali = FALSE
          /\ raw \in [Grid -> RaceRecords(OneLap, WideGaps)]
    /\ InitRest

\* Result.__init__ for every raw record, and the rows the records give the table
Construct ==
    /\ pc = "raw"
    /\ results' = [d \in Drivers |->
                     IF raw[d].inRace THEN AssignIndividualProperties(raw[d]) ELSE NoResult]
    /\ table' = [d \in Drivers |->
                   IF raw[d].inRace
                   THEN [EmptyRow EXCEPT
                           !.lap_times_race = results'[d].lap_times,
                           !.lap_times_isna = FALSE,
                           !.total_time_race = results'[d].total_time,
                           !.num_laps_driven_race = results'[d].num_laps_driven,
                           !.fastest_lap_time_race = results'[d].fastest_lap_time,
                           !.time_until_starting_line_race = results'[d].time_until_starting_line,
                           !.fastest_lap_time_quali = FastestLapTime(raw[d].qualiLapTimes)]
                   ELSE [EmptyRow EXCEPT
                           !.fastest_lap_time_quali = FastestLapTime(raw[d].qualiLapTimes)]]
    /\ pc' = "table"
    /\ UNCHANGED <<raw, has_quali, order, columns, error, diagnostics, df_order, col,
                   lap_rank, interp_index, pivot>>

\* ---------------------------------------------------------------- sorting
\* one key of DataFrame.sort_values: NaN sorts last (na_position="last") in either direction
KeyBefore(a, b, ascending) ==
    IF a = NaN THEN FALSE
    ELSE IF b = NaN THEN TRUE
    ELSE IF ascending THEN a < b ELSE a > b

\* sort_values by a list of keys: a stable sort of the rows by before, where
\* before[<<d, e>>] says that the keys put row d ahead of row e
StableSort(ord, before) ==
    LET n == Len(ord)
        Prec(i, j) == before[<<ord[i], ord[j]>>]
                      \/ (~before[<<ord[j], ord[i]>>] /\ i < j)
        pos(i) == 1 + Cardinality({j \in 1..n : Prec(j, i)})
    IN [p \in 1..n |-> ord[CHOOSE i \in 1..n : pos(i) = p]]

\* sort_values by one key, kind="quicksort": o is a result of sorting ord when the rows
\* with a value come first in ascending order (equal values in an order the sort does
\* not promise) and the rows without a value follow in the order they had in ord;
\* key[d] is the value of row d
IsNargSorted(ord, key, o) ==
    \A i, j \in 1..Len(o) :
        i < j =>
            IF key[o[i]] = NaN
            THEN key[o[j]] = NaN /\ IndexOf(ord, o[i]) < IndexOf(ord, o[j])
            ELSE key[o[j]] = NaN \/ key[o[i]] <= key[o[j]]

NargSort(ord, key) == {o \in Perms(SeqRange(ord)) : IsNargSorted(ord, key, o)}

\* ---------------------------------------------- __calc_starting_position
\* QualiBefore with the two keys in the other order
QualiBeforeSwapped(d, e) ==
    \/ KeyBefore(table[d].time_until_starting_line_race,
                 table[e].time_until_starting_line_race, TRUE)
    \/ /\ table[d].time_until_starting_line_race = table[e].time_until_starting_line_race
       /\ KeyBefore(table[d].fastest_lap_time_quali, table[e].fastest_lap_time_quali, TRUE)

QualiBefore(d, e) ==
    \/ KeyBefore(table[d].fastest_lap_time_quali, table[e].fastest_lap_time_quali, TRUE)
    \/ /\ table[d].fastest_lap_time_quali = table[e].fastest_lap_time_quali
       /\ KeyBefore(table[d].time_until_starting_line_race,
                    table[e].time_until_starting_line_race, TRUE)

StartingLineKey(d) == table[d].time_until_starting_line_race

StartingOrders ==
    IF has_quali
    THEN {StableSort(order, [p \in Drivers \X Drivers |-> QualiBefore(p[1], p[2])])}
    ELSE NargSort(order, [d \in Drivers |-> StartingLineKey(d)])

CalcStartingPosition ==
    /\ pc = "table"
    /\ \E o \in StartingOrders :
         /\ order' = o
         /\ table' = [d \in Drivers |->
                        [table[d] EXCEPT !.starting_position_race = IndexOf(o, d)]]
    /\ columns' = columns \cup {"starting_position_race"}
    /\ pc' = "started"
    /\ UNCHANGED <<raw, has_quali, results, error, diagnostics, df_order, col, lap_rank,
                   interp_index, pivot>>

\* -------------------------------------------------- __calc_race_position
\* RacePositionBefore with num_laps_driven_race ascending like the other keys
RacePositionBeforeAscending(d, e) ==
    \/ KeyBefore(table[d].num_laps_driven_race, table[e].num_laps_driven_race, TRUE)
    \/ /\ table[d].num_laps_driven_race = table[e].num_laps_driven_race
       /\ \/ KeyBefore(table[d].total_time_race, table[e].total_time_race, TRUE)
          \/ /\ table[d].total_time_race = table[e].total_time_race
             /\ KeyBefore(table[d].starting_position_race,
                          table[e].starting_position_race, TRUE)

RacePositionBefore(d, e) ==
    \/ KeyBefore(table[d].num_laps_driven_race, table[e].num_laps_driven_race, FALSE)
    \/ /\ table[d].num_laps_driven_race = table[e].num_laps_driven_race
       /\ \/ KeyBefore(table[d].total_time_race, table[e].total_time_race, TRUE)
          \/ /\ table[d].total_time_race = table[e].total_time_race
             /\ KeyBefore(table[d].starting_position_race,
                          table[e].starting_position_race, TRUE)

CalcRacePosition ==
    /\ pc = "started"
    /\ LET o == StableSort(order, [p \in Drivers \X Drivers |-> RacePositionBefore(p[1], p[2])]) IN
         /\ order' = o
         /\ table' = [d \in Drivers |->
                        [table[d] EXCEPT !.end_position_race = IndexOf(o, d)]]
    /\ columns' = columns \cup {"end_position_race"}
    /\ pc' = "ended"
    /\ UNCHANGED <<raw, has_quali, results, error, diagnostics, df_order, col, lap_rank,
                   interp_index, pivot>>

\* --------------------------- __interpolate_time_until_starting_line_race
\* the index the step gives the row of driver d: 1..N in the row order of the table
InterpolationIndex(d) == IndexOf(order, d)

\* Series.interpolate: nothing to do without a missing or without a present value;
\* a spline of order k needs more than k points (scipy raises otherwise); missing
\* values before the first present one are kept (limit_direction "forward"), the
\* others take the value of the spline at their index
InterpolateTimeUntilStartingLineRace ==
    /\ pc = "ended"
    /\ interp_index' = [d \in Drivers |-> InterpolationIndex(d)]
    /\ LET x(d) == InterpolationIndex(d)
           valid == {d \in Drivers : table[d].time_until_starting_line_race # NaN}
           first == CHOOSE i \in {x(d) : d \in valid} : \A e \in valid : i <= x(e)
           fill == {d \in Drivers \ valid : x(d) > first}
       IN IF valid = {} \/ valid = Drivers
          THEN /\ table' = table
               /\ pc' = "interpolated"
               /\ error' = error
          ELSE IF Cardinality(valid) <= SplineOrder
          THEN /\ table' = table
               /\ pc' = "failed"
               /\ error' = "SplineError"
          ELSE /\ \E f \in [fill -> SplineVals] :
                    table' = [d \in Drivers |->
                                IF d \in fill
                                THEN [table[d] EXCEPT !.time_until_starting_line_race = f[d]]
                                ELSE table[d]]
               /\ pc' = "interpolated"
               /\ error' = error
    /\ UNCHANGED <<raw, has_quali, results, order, columns, diagnostics, df_order, col,
                   lap_rank, pivot>>

\* --------------------------------------------------- __calc_lap_positions
\* rows of df: those whose lap_times_race is not NaN
LapRows == {d \in Drivers : ~table[d].lap_times_isna}

\* number of columns of df_lap_times: column 0 and one per lap of the longest list
NumLapColumns ==
    1 + (CHOOSE n \in 0..100 :
           /\ \A d \in LapRows : Len(table[d].lap_times_race) <= n
           /\ (n = 0 \/ \E d \in LapRows : Len(table[d].lap_times_race) = n))

\* df_lap_times after cumsum(axis=1): a missing cell stays missing and adds nothing
CumTime(d, k) ==
    LET t0 == table[d].time_until_starting_line_race
        l  == table[d].lap_times_race
    IN IF k = 0 THEN t0
       ELSE IF k > Len(l) THEN NaN
       ELSE (IF t0 = NaN THEN 0 ELSE t0) + SeqSum(SubSeq(l, 1, k))

\* lines 191-212: df and the cumulated lap times
CalcLapPositionsBegin ==
    /\ pc = "interpolated"
    /\ df_order' = SelectSeq(order, LAMBDA d : d \in LapRows)
    /\ col' = 0
    /\ lap_rank' = [d \in Drivers |-> <<>>]
    /\ pc' = "ranking"
    /\ UNCHANGED <<raw, has_quali, results, table, order, columns, error, diagnostics,
                   interp_index, pivot>>

\* LapRank without line 220, which removes the rank of a driver without a time
LapRankKeepingUntimed(o, d, k) == IndexOf(o, d)

\* the rank the loop gives driver d in column k, df being in order o after its sort
LapRank(o, d, k) == IF CumTime(d, k) = NaN THEN NaN ELSE IndexOf(o, d)

\* lines 217-221: one iteration of the loop, for column col
RankLap ==
    /\ pc = "ranking"
    /\ \E o \in NargSort(df_order, [d \in Drivers |-> CumTime(d, col)]) :
         /\ df_order' = o
         /\ lap_rank' = [d \in Drivers |->
                           IF d \in LapRows
                           THEN Append(lap_rank[d], LapRank(o, d, col))
                           ELSE lap_rank[d]]
    /\ col' = col + 1
    /\ pc' = IF col + 1 = NumLapColumns THEN "ranked" ELSE "ranking"
    /\ UNCHANGED <<raw, has_quali, results, table, order, columns, error, diagnostics,
                   interp_index, pivot>>

\* lines 223-230: the drivers the consistency check prints a message about
Mismatched ==
    {d \in LapRows : /\ lap_rank[d][NumLapColumns] # NaN
                     /\ lap_rank[d][NumLapColumns] # table[d].end_position_race}

\* ForceLastLap without the assignment of line 234
ForceLastLapSkipped(d) == lap_rank[d]

\* line 234: the column of the last lap takes end_position_race
ForceLastLap(d) == [lap_rank[d] EXCEPT ![NumLapColumns] = table[d].end_position_race]

\* LapTableRow without the filter col != "Lap 0"
LapTableRowWithLapZero(d) == <<table[d].starting_position_race>> \o ForceLastLap(d)

\* lines 236-244: starting_position_race and the "Lap k" columns but "Lap 0"
LapTableRow(d) == <<table[d].starting_position_race>> \o Tail(ForceLastLap(d))

\* BackFill that fills nothing
BackFillNothing(row) == row

\* line 249: fillna(method="bfill", axis=1)
RECURSIVE BackFill(_)
BackFill(row) ==
    IF row = <<>> THEN <<>>
    ELSE LET rest == BackFill(Tail(row))
         IN IF row[1] # NaN \/ rest = <<>> THEN <<row[1]>> \o rest
            ELSE <<rest[1]>> \o rest

\* lines 223-261
CalcLapPositionsFinish ==
    /\ pc = "ranked"
    /\ diagnostics' = diagnostics \cup {<<"position_mismatch", d>> : d \in Mismatched}
    /\ df_order' = StableSort(df_order,
                              [p \in Drivers \X Drivers |->
                                 table[p[1]].end_position_race < table[p[2]].end_position_race])
    /\ table' = [d \in Drivers |->
                   IF d \in LapRows
                   THEN [table[d] EXCEPT !.lap_positions_race = BackFill(LapTableRow(d)),
                                         !.lap_positions_isna = FALSE]
                   ELSE [table[d] EXCEPT !.lap_positions_race = <<>>,
                                         !.lap_positions_isna = TRUE]]
    /\ columns' = columns \cup {"lap_positions_race"}
    /\ pc' = "done"
    /\ UNCHANGED <<raw, has_quali, results, order, error, col, lap_rank, interp_index, pivot>>

\* ----------------------------------------------------- lap_position_table
\* The three derived columns are added by _run_result_calculations only, so a table
\* without lap_positions_race has no starting_position_race and no end_position_race:
\* __calc_lap_positions (line 94) then selects missing columns in line 191 and .loc
\* raises KeyError, before the warning of line 95 is printed.
\* With lap_positions_race present the pivot is built from the lists of the column and
\* the table is left as it is; a row whose cell is NaN is no list, and DataFrame(...)
\* then raises or builds a frame of another shape, depending on the rows.
LapPositionTable ==
    /\ pc \in {"table", "done"}
    /\ pivot = "unread"
    /\ IF "lap_positions_race" \notin columns
       THEN /\ pivot' = "raised"
            /\ error' = "KeyError"
            /\ pc' = "failed"
       ELSE /\ pivot' \in {"unread"} \cup
                          (IF \E d \in Drivers : table[d].lap_positions_isna
                           THEN {"raised"} ELSE {})
            /\ error' = IF pivot' = "raised" THEN "TypeError" ELSE error
            /\ pc' = pc
    /\ UNCHANGED <<raw, has_quali, results, table, order, columns, diagnostics, df_order,
                   col, lap_rank, interp_index>>

\* _run_result_calculations runs its four steps in this order; the loop of the fourth
\* is one step per column
Next ==
    \/ Construct
    \/ CalcStartingPosition
    \/ CalcRacePosition
    \/ InterpolateTimeUntilStartingLineRace
    \/ CalcLapPositionsBegin
    \/ RankLap
    \/ CalcLapPositionsFinish
    \/ LapPositionTable

Spec == Init /\ [][Next]_vars

SpecGrid == InitGrid /\ [][Next]_vars

\* ================================================================ claims
\* N: the total lap count of the race, the largest number of laps of a row of df
RaceLaps == NumLapColumns - 1

Laps(d) == Len(table[d].lap_times_race)

DerivedColumns == {"starting_position_race", "end_position_race", "lap_positions_race"}

\* ---- C1
\* C1: after the pipeline has run, the last element of lap_positions_race of every
\* driver with at least one recorded race lap is that driver's end_position_race
C1_LastLapIsEndPosition ==
    pc = "done" =>
        \A d \in Drivers :
            Laps(d) >= 1 =>
                /\ ~table[d].lap_positions_isna
                /\ table[d].lap_positions_race # <<>>
                /\ table[d].lap_positions_race[Len(table[d].lap_positions_race)]
                     = table[d].end_position_race

\* the pipeline has run and the rank computed from the times of the last lap of some
\* driver with a lap differs from that driver's end_position_race
C1_Witness ==
    /\ pc = "done"
    /\ \E d \in Mismatched : Laps(d) >= 1

\* ---- C2
\* C2 as stated: lap_positions_race has exactly N entries, none for the starting grid
C2_OneEntryPerLap ==
    pc = "done" =>
        \A d \in Drivers :
            ~table[d].lap_positions_isna => Len(table[d].lap_positions_race) = RaceLaps

\* C2 amended: lap_positions_race has N + 1 entries: first the driver's
\* starting_position_race, then one entry per lap 1..N, the entry of a lap before the
\* last that the driver completed being the rank computed for that lap and the entry of
\* lap N being end_position_race; there is no entry for lap 0
C2_StartThenOneEntryPerLap ==
    pc = "done" =>
        \A d \in Drivers :
            ~table[d].lap_positions_isna =>
                /\ Len(table[d].lap_positions_race) = RaceLaps + 1
                /\ table[d].lap_positions_race[1] = table[d].starting_position_race
                /\ \A i \in 1..RaceLaps :
                     /\ i < RaceLaps /\ i <= Laps(d) =>
                          table[d].lap_positions_race[i + 1] = lap_rank[d][i + 1]
                     /\ i = RaceLaps =>
                          table[d].lap_positions_race[i + 1] = table[d].end_position_race

\* the pipeline has run on a race of two laps or more, and a driver's starting position
\* differs from the position after the first lap and from the rank of lap 0
C2_Witness ==
    /\ pc = "done"
    /\ RaceLaps >= 2
    /\ \E d \in Drivers :
         /\ Laps(d) >= 1
         /\ table[d].lap_positions_race[1] # table[d].lap_positions_race[2]
         /\ table[d].lap_positions_race[1] # lap_rank[d][1]

\* ---- C3
\* the drivers that have a cumulated time in column k of df_lap_times
Timed(k) == {d \in LapRows : CumTime(d, k) # NaN}

\* C3: in every column k before the last that the loop has ranked, the m drivers with a
\* cumulated time have exactly the ranks 1..m, a strictly smaller cumulated time gives a
\* strictly smaller rank, and a driver with fewer than k laps has no rank
C3_RanksByCumulatedTime ==
    pc \in {"ranking", "ranked", "done"} =>
        \A k \in 0..(col - 1) :
            k < RaceLaps =>
                /\ {lap_rank[d][k + 1] : d \in Timed(k)} = 1..Cardinality(Timed(k))
                /\ \A d, e \in Timed(k) :
                     CumTime(d, k) < CumTime(e, k) => lap_rank[d][k + 1] < lap_rank[e][k + 1]
                /\ \A d \in LapRows : Laps(d) < k => lap_rank[d][k + 1] = NaN

\* every column is ranked, and in a column between lap 0 and the last lap one driver has
\* no time, and of two drivers with a time the one ahead was ranked behind in column 0
C3_Witness ==
    /\ pc = "ranked"
    /\ \E k \in 1..(RaceLaps - 1) :
         /\ \E d \in LapRows : Laps(d) < k
         /\ \E d, e \in Timed(k) :
              /\ CumTime(d, k) < CumTime(e, k)
              /\ lap_rank[d][1] # NaN /\ lap_rank[e][1] # NaN
              /\ lap_rank[d][1] > lap_rank[e][1]

\* ---- C4
\* C4: after the pipeline has run, a driver with L laps of a race of N laps,
\* 1 <= L < N, has end_position_race in the entries of laps L+1..N and the ranks
\* computed from the times in the entries of laps 1..L, none undefined
C4_LappedDriverBackFilled ==
    pc = "done" =>
        \A d \in Drivers :
            (~table[d].lap_times_isna /\ 1 <= Laps(d) /\ Laps(d) < RaceLaps) =>
                /\ ~table[d].lap_positions_isna
                /\ \A i \in (Laps(d) + 1)..RaceLaps :
                     table[d].lap_positions_race[i + 1] = table[d].end_position_race
                /\ \A i \in 1..Laps(d) :
                     /\ table[d].lap_positions_race[i + 1] = lap_rank[d][i + 1]
                     /\ table[d].lap_positions_race[i + 1] # NaN

\* the pipeline has run and a driver who is two or more laps down was, after a lap it
\* completed, in another position than at the end
C4_Witness ==
    /\ pc = "done"
    /\ \E d \in Drivers :
         /\ 1 <= Laps(d) /\ Laps(d) + 2 <= RaceLaps
         /\ lap_rank[d][Laps(d) + 2] = NaN
         /\ table[d].lap_positions_race[Laps(d) + 1] # table[d].end_position_race

\* ---- C5
IsPermutation(f) == {f[d] : d \in Drivers} = 1..Cardinality(Drivers)

\* C5: end_position_race gives each rank 1..N to one driver; more laps is better, then
\* the smaller total_time_race, then the smaller starting_position_race
C5_EndPositionOrder ==
    "end_position_race" \in columns =>
        /\ IsPermutation([d \in Drivers |-> table[d].end_position_race])
        /\ \A d, e \in Drivers :
             /\ Laps(d) > Laps(e) => table[d].end_position_race < table[e].end_position_race
             /\ ( /\ Laps(d) = Laps(e)
                  /\ table[d].total_time_race # NaN
                  /\ table[e].total_time_race # NaN
                  /\ table[d].total_time_race < table[e].total_time_race )
                  => table[d].end_position_race < table[e].end_position_race
             /\ ( /\ Laps(d) = Laps(e)
                  /\ table[d].total_time_race = table[e].total_time_race
                  /\ table[d].starting_position_race < table[e].starting_position_race )
                  => table[d].end_position_race < table[e].end_position_race

\* the end position step has run and a driver with more laps ends ahead of one with a
\* smaller total time and a better starting position
C5_Witness ==
    /\ pc = "ended"
    /\ \E d, e \in Drivers :
         /\ Laps(d) > Laps(e)
         /\ table[e].total_time_race # NaN
         /\ table[d].total_time_race > table[e].total_time_race
         /\ table[d].starting_position_race > table[e].starting_position_race
         /\ table[d].end_position_race < table[e].end_position_race

\* ---- C6
\* C6: starting_position_race gives each rank 1..N to one driver; without qualifying
\* data a strictly smaller time_until_starting_line_race gives a strictly smaller
\* starting position; with qualifying data a strictly smaller fastest_lap_time_quali
\* does, and time_until_starting_line_race decides between equal fastest_lap_time_quali
C6_StartingPositionOrder ==
    "starting_position_race" \in columns =>
        /\ IsPermutation([d \in Drivers |-> table[d].starting_position_race])
        /\ \A d, e \in Drivers :
             LET td == results[d].time_until_starting_line
                 te == results[e].time_until_starting_line
                 qd == table[d].fastest_lap_time_quali
                 qe == table[e].fastest_lap_time_quali
                 ahead == table[d].starting_position_race < table[e].starting_position_race
             IN /\ (~has_quali /\ td # NaN /\ te # NaN /\ td < te) => ahead
                /\ (has_quali /\ qd # NaN /\ qe # NaN /\ qd < qe) => ahead
                /\ (has_quali /\ qd = qe /\ td # NaN /\ te # NaN /\ td < te) => ahead

\* the starting position step has run without qualifying data on the times
\* A = 1, B = 0, C = 2 and has given B:1, A:2, C:3
C6_Witness ==
    /\ pc = "started"
    /\ ~has_quali
    /\ Drivers = Grid
    /\ table[1].time_until_starting_line_race = 1
    /\ table[2].time_until_starting_line_race = 0
    /\ table[3].time_until_starting_line_race = 2
    /\ table[1].starting_position_race = 2
    /\ table[2].starting_position_race = 1
    /\ table[3].starting_position_race = 3

\* ---- C7
\* C7: after the pipeline has run, a driver whose race lap_times is empty has taken part
\* in no ranking and has no lap_positions_race, and has a starting and an end position
C7_ZeroLapDriversExcluded ==
    pc = "done" =>
        \A d \in Drivers :
            table[d].lap_times_race = <<>> =>
                /\ lap_rank[d] = <<>>
                /\ table[d].lap_positions_isna
                /\ table[d].starting_position_race \in 1..Cardinality(Drivers)
                /\ table[d].end_position_race \in 1..Cardinality(Drivers)

\* ---- C8
\* C8: reading lap_position_table on a table whose pipeline has not run does not fail,
\* prints a warning, and leaves the three derived columns populated
C8_EarlyPivotReadHeals ==
    [][ (LapPositionTable /\ "lap_positions_race" \notin columns) =>
            /\ error' = "none"
            /\ DerivedColumns \subseteq columns'
            /\ <<"warning", "lap_position_table">> \in diagnostics' ]_vars

\* ---- C9
\* C9 as stated: a Result of a raw record with empty lapTimes has num_laps_driven,
\* fastest_lap_time and time_until_starting_line undefined, whatever finishTime is
C9_EmptyLapTimesAllUndefined ==
    pc # "raw" =>
        \A d \in Drivers :
            (raw[d].inRace /\ raw[d].lapTimes = <<>>) =>
                /\ results[d].num_laps_driven = NaN
                /\ results[d].fastest_lap_time = NaN
                /\ results[d].time_until_starting_line = NaN

\* C9 amended: a Result of a raw record with empty lapTimes has num_laps_driven and
\* fastest_lap_time undefined whatever finishTime is; its time_until_starting_line is
\* undefined when finishTime is absent (or zero) and is finishTime otherwise
C9_EmptyLapTimes ==
    pc # "raw" =>
        \A d \in Drivers :
            (raw[d].inRace /\ raw[d].lapTimes = <<>>) =>
                /\ results[d].num_laps_driven = NaN
                /\ results[d].fastest_lap_time = NaN
                /\ results[d].time_until_starting_line =
                     (IF raw[d].finishTime = NaN \/ raw[d].finishTime = 0
                      THEN NaN ELSE raw[d].finishTime)

\* the Results are constructed, one from empty lapTimes without a finishTime and one
\* from empty lapTimes with a finishTime
C9_Witness ==
    /\ pc = "table"
    /\ \E d, e \in Drivers :
         /\ raw[d].inRace /\ raw[d].lapTimes = <<>> /\ raw[d].finishTime = NaN
         /\ raw[e].inRace /\ raw[e].lapTimes = <<>> /\ raw[e].finishTime = 1

\* ---- C10
\* C10: the index the interpolation step gives a driver's
\* time_until_starting_line_race is that driver's starting_position_race
C10_IndexIsStartingPosition ==
    pc \in {"interpolated", "ranking", "ranked", "done"} =>
        \A d \in Drivers : interp_index[d] = table[d].starting_position_race
====
